---------------------------- MODULE Spec2Model ----------------------------
(* Model of the auth service of src/src/auth/router.py: the five request   *)
(* handlers (register, login, logout, edit_profile, test_auth) run as      *)
(* coroutines over one user store.  Every await of a handler is one step,  *)
(* so the steps of concurrent requests interleave; a request enters the    *)
(* model with the step of its first await.  Every awaited helper inside a  *)
(* handler's try block may raise, which the handler answers with 500.      *)
(* The store, hash and token helpers (src/auth/utils.py) are modelled from *)
(* the specification's description of them: a users table with no          *)
(* uniqueness constraint of its own, a lookup by email that returns one    *)
(* row of that email, a token carrying subject and expiry.                 *)
EXTENDS Integers, Sequences, FiniteSets, TLC

\* ----------------------------------------------------------------- bounds
\* requests sent in a behaviour, and clock ticks; a tick is longer than a
\* token lives and no clock value is the expiry of a token
MaxRequests == 2
MaxTicks == 1
TickStep == 4000

\* -------------------------------------------------------------- constants
CookieMaxAge == 3600
TokenExpireSeconds == 3600

Clients == {"c1", "c2"}
Emails == {"a@x.com", "b@x.com"}
Passwords == {"p1", "p2"}
Usernames == {"u1", "u2"}

VARIABLES users, now, issued, req, last, nreq, budget

vars == <<users, now, issued, req, last, nreq, budget>>

\* ------------------------------------------------------------ plain values
NoToken == [sub |-> "", exp |-> 0, sig |-> "none"]
ForgedToken == [sub |-> "a@x.com", exp |-> 1000000, sig |-> "bad"]
NoUser == [id |-> 0, email |-> "", username |-> ""]

NoData == [kind |-> "none", jwt_token |-> NoToken, token_type |-> "", user |-> NoUser]
NoCookie == [op |-> "none", value |-> NoToken, max_age |-> 0]
NoResponse == [code |-> 0, status |-> "", data |-> NoData, detail |-> "", cookie |-> NoCookie]

Idle ==
  [kind |-> "idle", pc |-> "idle", email |-> "", password |-> "", username |-> "",
   cookie |-> NoToken, user |-> NoUser, seen |-> "", held |-> FALSE,
   wrote |-> "none", resp |-> NoResponse]

\* --------------------------------------------------------------- responses
\* the "except HTTPException" branch of every handler
HttpError(code, detail) ==
  [code |-> code, status |-> "error", data |-> NoData, detail |-> detail, cookie |-> NoCookie]

\* the "except Exception" branch of every handler: str(error) goes out in data
ServerError ==
  [code |-> 500, status |-> "error",
   data |-> [NoData EXCEPT !.kind = "error"], detail |-> "Server error", cookie |-> NoCookie]

\* the success branch of register, login and edit_profile
TokenResponse(jwt_token) ==
  [code |-> 200, status |-> "success",
   data |-> [kind |-> "token", jwt_token |-> jwt_token, token_type |-> "jwt_token", user |-> NoUser],
   detail |-> "",
   cookie |-> [op |-> "set", value |-> jwt_token, max_age |-> CookieMaxAge]]

Respond(r, resp) == [r EXCEPT !.pc = "done", !.resp = resp]

\* ------------------------------------------------- store, hash and tokens
UserRead(row) == [id |-> row.id, email |-> row.email, username |-> row.username]

RowsByEmail(email) == {i \in 1..Len(users) : users[i].email = email}

get_password_hash(password) == [digest |-> password]

verify_hash(password, password_hash) == password_hash = get_password_hash(password)

\* the rows a lookup by email may return: any row with that email, or 0 for None
get_user_by_email(email) ==
  IF RowsByEmail(email) = {} THEN {0} ELSE RowsByEmail(email)

create_user(user) ==
  Append(users, [id |-> Len(users) + 1, email |-> user.email, username |-> user.username,
                 password_hash |-> get_password_hash(user.password)])

\* verify_password looks the user up by email and checks the hash of the row
\* found; its caller sees "ok" as true, "absent" and "wrong" as false
verify_password(email, password) ==
  {IF i = 0 THEN "absent"
   ELSE IF verify_hash(password, users[i].password_hash) THEN "ok" ELSE "wrong" :
     i \in get_user_by_email(email)}

create_access_token(email) ==
  [sub |-> email, exp |-> now + TokenExpireSeconds, sig |-> "ok"]

TokenValid(token) == token.sig = "ok" /\ now < token.exp

\* the users the cookie may resolve to: NoUser is Python's None
get_current_user(cookie) ==
  IF ~TokenValid(cookie) THEN {NoUser}
  ELSE {IF i = 0 THEN NoUser ELSE UserRead(users[i]) : i \in get_user_by_email(cookie.sub)}

edit_user(user, new_username) ==
  [i \in 1..Len(users) |->
     IF users[i].id = user.id THEN [users[i] EXCEPT !.username = new_username] ELSE users[i]]

\* ----------------------------------------------------------------- clients
\* what a client may send as its jwt_token cookie: nothing, a token it made up,
\* or any token the service has handed out (tokens are bearer credentials)
Cookies == issued \cup {NoToken, ForgedToken}

\* client c has no request in flight and sends one
Start(c) ==
  /\ req[c].pc = "idle"
  /\ nreq < budget
  /\ nreq' = nreq + 1

\* the handler of c's request goes on to r; when r is answered the request
\* leaves the service and last keeps it with its response
Step(c, r) ==
  IF r.pc = "done"
    THEN req' = [req EXCEPT ![c] = Idle] /\ last' = r
    ELSE req' = [req EXCEPT ![c] = r] /\ UNCHANGED last

Tick ==
  /\ now < MaxTicks * TickStep
  /\ now' = now + TickStep
  /\ UNCHANGED <<users, issued, req, last, nreq, budget>>

\* the fields seen, held and wrote of a request are history: what the lookup
\* returned; whether the store held what the request asks about when it looked
\* (register: a row of the email; login: a row of the email whose hash
\* verifies the password; edit_profile: the authenticated user's own hash
\* verifies the password); what the request wrote
Looked(r, seen, held) == [r EXCEPT !.seen = seen, !.held = held]

\* ---------------------------------------------------------------- register
\* register without its conflict check
register_unchecked(r, i) == [r EXCEPT !.pc = "create_user"]

\* "if user_in_db: raise HTTPException(409)"
register_checked(r, i) ==
  IF i # 0
    THEN Respond(r, HttpError(409, "User already registered"))
    ELSE [r EXCEPT !.pc = "create_user"]

RegisterGetUser(c) ==
  /\ Start(c)
  /\ \E e \in Emails, p \in Passwords, u \in Usernames :
       LET r == [Idle EXCEPT !.kind = "register", !.email = e, !.password = p, !.username = u]
       IN \/ Step(c, Respond(r, ServerError))
          \/ \E i \in get_user_by_email(e) :
               Step(c, register_checked(Looked(r, IF i = 0 THEN "absent" ELSE "present",
                                               RowsByEmail(e) # {}), i))
  /\ UNCHANGED <<users, now, issued, budget>>

RegisterCreateUser(c) ==
  /\ req[c].kind = "register" /\ req[c].pc = "create_user"
  /\ \/ /\ Step(c, Respond(req[c], ServerError))
        /\ UNCHANGED users
     \/ /\ users' = create_user(req[c])
        /\ Step(c, [req[c] EXCEPT !.wrote = "insert", !.pc = "create_access_token"])
  /\ UNCHANGED <<now, issued, nreq, budget>>

register_issued(r, jwt_token) == Respond(r, TokenResponse(jwt_token))

RegisterToken(c) ==
  /\ req[c].kind = "register" /\ req[c].pc = "create_access_token"
  /\ \/ /\ Step(c, Respond(req[c], ServerError))
        /\ UNCHANGED issued
     \/ /\ Step(c, register_issued(req[c], create_access_token(req[c].email)))
        /\ issued' = issued \cup {create_access_token(req[c].email)}
  /\ UNCHANGED <<users, now, nreq, budget>>

\* ------------------------------------------------------------------- login
\* login that tells an unknown email from a wrong password
login_verified_leaky(r, verdict) ==
  IF verdict = "ok"
    THEN [r EXCEPT !.pc = "create_access_token"]
    ELSE IF verdict = "absent"
      THEN Respond(r, HttpError(404, "User not found"))
      ELSE Respond(r, HttpError(401, "Invalid credentials"))

\* "if await verify_password(...): ... else: raise HTTPException(401)"
login_verified(r, verdict) ==
  IF verdict = "ok"
    THEN [r EXCEPT !.pc = "create_access_token"]
    ELSE Respond(r, HttpError(401, "Invalid credentials"))

LoginVerify(c) ==
  /\ Start(c)
  /\ \E e \in Emails, p \in Passwords :
       LET r == [Idle EXCEPT !.kind = "login", !.email = e, !.password = p]
       IN \/ Step(c, Respond(r, ServerError))
          \/ \E verdict \in verify_password(e, p) :
               Step(c, login_verified(
                         Looked(r, verdict,
                                \E j \in RowsByEmail(e) : verify_hash(p, users[j].password_hash)),
                         verdict))
  /\ UNCHANGED <<users, now, issued, budget>>

login_issued(r, jwt_token) == Respond(r, TokenResponse(jwt_token))

LoginToken(c) ==
  /\ req[c].kind = "login" /\ req[c].pc = "create_access_token"
  /\ \/ /\ Step(c, Respond(req[c], ServerError))
        /\ UNCHANGED issued
     \/ /\ Step(c, login_issued(req[c], create_access_token(req[c].email)))
        /\ issued' = issued \cup {create_access_token(req[c].email)}
  /\ UNCHANGED <<users, now, nreq, budget>>

\* ------------------------------------------------------------------ logout
logout_response ==
  [code |-> 200, status |-> "success", data |-> NoData, detail |-> "",
   cookie |-> [op |-> "delete", value |-> NoToken, max_age |-> 0]]

\* logout that wants a cookie before it clears it
logout_authenticated(r) ==
  IF r.cookie = NoToken
    THEN Respond(r, HttpError(401, "Unauthorized"))
    ELSE Respond(r, logout_response)

logout(r) == Respond(r, logout_response)

Logout(c) ==
  /\ Start(c)
  /\ \E k \in Cookies :
       Step(c, logout([Idle EXCEPT !.kind = "logout", !.cookie = k]))
  /\ UNCHANGED <<users, now, issued, budget>>

\* ------------------------------------------------------------ edit-profile
\* edit_profile without its None check: user.email raises on None
edit_profile_unguarded(r, user) ==
  IF user = NoUser
    THEN Respond(r, ServerError)
    ELSE [r EXCEPT !.user = user, !.pc = "verify_password"]

\* "if user is None: raise HTTPException(401)"
edit_profile_authenticated(r, user) ==
  IF user = NoUser
    THEN Respond(r, HttpError(401, "Unauthorized"))
    ELSE [r EXCEPT !.user = user, !.pc = "verify_password"]

EditGetCurrentUser(c) ==
  /\ Start(c)
  /\ \E k \in Cookies, p \in Passwords, u \in Usernames :
       \E user \in get_current_user(k) :
         Step(c, edit_profile_authenticated(
                   [Idle EXCEPT !.kind = "edit_profile", !.cookie = k,
                                !.password = p, !.username = u], user))
  /\ UNCHANGED <<users, now, issued, budget>>

\* "if await verify_password(...): ... else: raise HTTPException(400)"
edit_profile_verified(r, verdict) ==
  IF verdict = "ok"
    THEN [r EXCEPT !.pc = "edit_user"]
    ELSE Respond(r, HttpError(400, "Password is incorrect"))

EditVerify(c) ==
  /\ req[c].kind = "edit_profile" /\ req[c].pc = "verify_password"
  /\ \/ Step(c, Respond(req[c], ServerError))
     \/ \E verdict \in verify_password(req[c].user.email, req[c].password) :
          Step(c, edit_profile_verified(
                    Looked(req[c], verdict,
                           verify_hash(req[c].password, users[req[c].user.id].password_hash)),
                    verdict))
  /\ UNCHANGED <<users, now, issued, nreq, budget>>

EditUser(c) ==
  /\ req[c].kind = "edit_profile" /\ req[c].pc = "edit_user"
  /\ \/ /\ Step(c, Respond(req[c], ServerError))
        /\ UNCHANGED users
     \/ /\ users' = edit_user(req[c].user, req[c].username)
        /\ Step(c, [req[c] EXCEPT !.wrote = "update", !.pc = "create_access_token"])
  /\ UNCHANGED <<now, issued, nreq, budget>>

edit_profile_issued(r, jwt_token) == Respond(r, TokenResponse(jwt_token))

EditToken(c) ==
  /\ req[c].kind = "edit_profile" /\ req[c].pc = "create_access_token"
  /\ \/ /\ Step(c, Respond(req[c], ServerError))
        /\ UNCHANGED issued
     \/ /\ Step(c, edit_profile_issued(req[c], create_access_token(req[c].user.email)))
        /\ issued' = issued \cup {create_access_token(req[c].user.email)}
  /\ UNCHANGED <<users, now, nreq, budget>>

\* --------------------------------------------------------------- test-auth
test_auth(r, user) ==
  IF user = NoUser
    THEN Respond(r, HttpError(401, "Unauthorized"))
    ELSE Respond([r EXCEPT !.user = user],
                 [code |-> 200, status |-> "success",
                  data |-> [NoData EXCEPT !.kind = "user", !.user = user],
                  detail |-> "", cookie |-> NoCookie])

TestAuth(c) ==
  /\ Start(c)
  /\ \E k \in Cookies :
       \E user \in get_current_user(k) :
         Step(c, test_auth([Idle EXCEPT !.kind = "test_auth", !.cookie = k], user))
  /\ UNCHANGED <<users, now, issued, budget>>

\* ----------------------------------------------------------- specification
\* the store is empty after create_tables; budget is the number of requests
\* the clients send in a behaviour
Service(n) ==
  /\ users = <<>>
  /\ now = 0
  /\ issued = {}
  /\ req = [c \in Clients |-> Idle]
  /\ last = Idle
  /\ nreq = 0
  /\ budget = n

Init == Service(MaxRequests)

\* one request more, so that a request can follow two registrations that raced
InitRace == Service(MaxRequests + 1)

Next ==
  \/ Tick
  \/ \E c \in Clients : RegisterGetUser(c)
  \/ \E c \in Clients : RegisterCreateUser(c)
  \/ \E c \in Clients : RegisterToken(c)
  \/ \E c \in Clients : LoginVerify(c)
  \/ \E c \in Clients : LoginToken(c)
  \/ \E c \in Clients : Logout(c)
  \/ \E c \in Clients : EditGetCurrentUser(c)
  \/ \E c \in Clients : EditVerify(c)
  \/ \E c \in Clients : EditUser(c)
  \/ \E c \in Clients : EditToken(c)
  \/ \E c \in Clients : TestAuth(c)

Spec == Init /\ [][Next]_vars

SpecRace == InitRace /\ [][Next]_vars

\* ------------------------------------------------------------------ claims
\* a step that answers a request: last' is the request with its response
AnsweredAtStart == nreq' = nreq + 1 /\ req' = req
AnsweredInFlight == \E c \in Clients : req[c].pc # "idle" /\ req'[c].pc = "idle"
Answered == AnsweredAtStart \/ AnsweredInFlight

IsSuccessFor(resp, email) ==
  /\ resp.code = 200 /\ resp.status = "success" /\ resp.detail = ""
  /\ resp.data.kind = "token" /\ resp.data.token_type = "jwt_token"
  /\ resp.data.jwt_token.sub = email /\ resp.data.jwt_token.sig = "ok"
  /\ resp.cookie = [op |-> "set", value |-> resp.data.jwt_token, max_age |-> 3600]

Conflict409 ==
  [code |-> 409, status |-> "error", data |-> NoData,
   detail |-> "User already registered", cookie |-> NoCookie]

\* C1: a /register for an email the store already holds (the second of two
\* sequential calls) answers 409 "User already registered", inserts and
\* changes no row and sets no cookie; a /register that found the email absent
\* and is not answered 500 answers 200 with a token for that email, the same
\* token as jwt_token cookie, having inserted one row for that email.
C1_RegisterTwice ==
  [][(Answered /\ last'.kind = "register" /\ last'.seen # "") =>
       IF last'.held
         THEN last'.resp = Conflict409 /\ users' = users /\ last'.wrote = "none"
         ELSE last'.resp.code # 500 =>
                /\ IsSuccessFor(last'.resp, last'.email)
                /\ last'.wrote = "insert"
                /\ \E i \in 1..Len(users') :
                     /\ users'[i].email = last'.email
                     /\ verify_hash(last'.password, users'[i].password_hash)]_vars

C1_Witness ==
  /\ last.kind = "register" /\ last.resp.code = 409 /\ last.held
  /\ Cardinality(RowsByEmail(last.email)) = 1
  /\ \E t \in issued : t.sub = last.email

InvalidCredentials401 ==
  [code |-> 401, status |-> "error", data |-> NoData,
   detail |-> "Invalid credentials", cookie |-> NoCookie]

Unauthorized401 ==
  [code |-> 401, status |-> "error", data |-> NoData,
   detail |-> "Unauthorized", cookie |-> NoCookie]

BadRequest400 ==
  [code |-> 400, status |-> "error", data |-> NoData,
   detail |-> "Password is incorrect", cookie |-> NoCookie]

LogoutSuccess ==
  [code |-> 200, status |-> "success", data |-> NoData, detail |-> "",
   cookie |-> [op |-> "delete", value |-> NoToken, max_age |-> 0]]

\* the store holds a user with this email whose hash verifies this password
Holds(email, password) ==
  \E i \in RowsByEmail(email) : verify_hash(password, users[i].password_hash)

\* /test-auth accepts the token
Accepted(token) == get_current_user(token) # {NoUser}

\* the request that arrives in this step (a step with nreq' = nreq + 1)
Arrived == IF req' = req THEN last' ELSE req'[CHOOSE c \in Clients : req'[c] # req[c]]

\* C2: no two rows of the store have the same email, in every reachable state.
C2_EmailUnique ==
  \A i, j \in 1..Len(users) : users[i].email = users[j].email => i = j

\* C3: a /login whose email is not in the store and a /login whose email is
\* there with no hash verifying the password get the same answer, unless the
\* lookup itself raised: 401, status error, no data, detail "Invalid
\* credentials", no cookie; nothing is written and no token is handed out.
C3_LoginIndistinguishable ==
  [][(nreq' = nreq + 1 /\ Arrived.kind = "login"
        /\ ~Holds(Arrived.email, Arrived.password)
        /\ ~(req' = req /\ last'.resp = ServerError)) =>
       /\ req' = req
       /\ last'.resp = InvalidCredentials401
       /\ users' = users /\ issued' = issued]_vars

C3_Witness ==
  /\ last.kind = "login" /\ last.resp = InvalidCredentials401
  /\ last.seen = "wrong" /\ RowsByEmail(last.email) # {}

\* C4: a /login not answered 500 answers 200 exactly if, when it looked, the
\* store held a user with the supplied email whose hash verifies the supplied
\* password; a 200 carries a token for that email, token_type jwt_token, and
\* the same token as jwt_token cookie with max-age 3600.
C4_LoginIff ==
  [][(Answered /\ last'.kind = "login" /\ last'.seen # "" /\ last'.resp.code # 500) =>
       /\ (last'.resp.code = 200) <=> last'.held
       /\ last'.resp.code = 200 => IsSuccessFor(last'.resp, last'.email)]_vars

\* C5: /test-auth with an unexpired token the service handed out answers 200
\* with the id, email and username, as stored now, of the stored user whose
\* email is the token's subject; with no token or an invalid one it answers
\* 401 "Unauthorized" with no data.
C5_TestAuth ==
  [][(AnsweredAtStart /\ last'.kind = "test_auth") =>
       IF last'.cookie \in issued /\ now < last'.cookie.exp
         THEN /\ last'.resp.code = 200 /\ last'.resp.status = "success"
              /\ last'.resp.data.kind = "user"
              /\ RowsByEmail(last'.cookie.sub) # {}
              /\ \A i \in RowsByEmail(last'.cookie.sub) :
                   last'.resp.data.user = UserRead(users[i])
         ELSE last'.resp = Unauthorized401]_vars

\* C6: an /edit-profile of an authenticated user, not answered 500, whose
\* password verifies against that user's stored hash sets the stored username
\* to the submitted one and answers 200 with a new token for the same email;
\* otherwise it answers 400 "Password is incorrect", writes nothing and sets
\* no cookie.
C6_EditProfile ==
  [][/\ (Answered /\ last'.kind = "edit_profile" /\ last'.seen # ""
           /\ last'.resp.code # 500) =>
          IF last'.held
            THEN IsSuccessFor(last'.resp, last'.user.email) /\ last'.wrote = "update"
            ELSE last'.resp = BadRequest400 /\ last'.wrote = "none"
     /\ \A c \in Clients :
          (req[c].pc = "edit_user" /\ req'[c].pc = "create_access_token") =>
            /\ req[c].held
            /\ users' = [users EXCEPT ![req[c].user.id].username = req[c].username]]_vars

\* C7: /logout answers success and asks for the jwt_token cookie to be
\* deleted whatever cookie came with it; the step changes neither the store
\* nor the clock, and every token /test-auth accepted before it is accepted
\* after it.
C7_Logout ==
  [][(nreq' = nreq + 1 /\ Arrived.kind = "logout") =>
       /\ req' = req
       /\ last'.resp = LogoutSuccess
       /\ users' = users /\ now' = now /\ issued' = issued
       /\ \A t \in Cookies : Accepted(t) => Accepted(t)']_vars

C7_Witness ==
  /\ last.kind = "logout" /\ last.resp = LogoutSuccess
  /\ last.cookie \in issued /\ Accepted(last.cookie)

\* C8: no step deletes a row or changes a row's id, email or password_hash;
\* a row is added only by a /register that is then answered 200, a username
\* changes only in the row of the user an /edit-profile authenticated and only
\* if that /edit-profile is then answered 200; /login, /logout and /test-auth
\* steps leave the store unchanged.
C8_Frame ==
  [][/\ Len(users') >= Len(users)
     /\ \A i \in 1..Len(users) :
          /\ users'[i].id = users[i].id
          /\ users'[i].email = users[i].email
          /\ users'[i].password_hash = users[i].password_hash
     /\ users' # users =>
          \E c \in Clients :
            /\ req[c].pc # "idle" /\ req'[c] # req[c]
            /\ \/ /\ req[c].kind = "register"
                  /\ Len(users') = Len(users) + 1
                  /\ users'[Len(users')].email = req[c].email
               \/ /\ req[c].kind = "edit_profile"
                  /\ users' = [users EXCEPT ![req[c].user.id].username = req[c].username]
                  /\ users[req[c].user.id].email = req[c].cookie.sub
     /\ (Answered /\ last'.kind \in {"login", "logout", "test_auth"}) => last'.wrote = "none"
     /\ (Answered /\ last'.wrote # "none") => last'.resp.code = 200]_vars

\* C9: a request answered with an error (409, 401, 400 or 500) has written
\* nothing to the store.
C9_NoPartialFailure ==
  last.resp.status = "error" => last.wrote = "none"

\* C10: an /edit-profile whose cookie resolves to no user is answered 401
\* "Unauthorized" at once, whatever password it submits; the password is not
\* verified and nothing is written.
C10_EditAuthFirst ==
  [][(nreq' = nreq + 1 /\ Arrived.kind = "edit_profile"
        /\ get_current_user(Arrived.cookie) = {NoUser}) =>
       /\ req' = req
       /\ last'.resp = Unauthorized401
       /\ last'.seen = "" /\ last'.wrote = "none"
       /\ users' = users /\ issued' = issued]_vars

C10_Witness ==
  /\ last.kind = "edit_profile" /\ last.resp = Unauthorized401
  /\ last.cookie = NoToken
  /\ \E i \in 1..Len(users) : verify_hash(last.password, users[i].password_hash)

=============================================================================
